---- MODULE Spec2Model ----
(***************************************************************************)
(* Portfolio reconstruction and time-weighted returns of the Robinhood     *)
(* client: full_order_history, portfolio_history, get_stock_costs,         *)
(* save_stock_prices and time_weighted_returns of Robinhood/Robinhood.py,  *)
(* with RobinhoodOrder and get_stock_cache.                                *)
(*                                                                         *)
(* Dates are day numbers; day 0 is Friday 2021-01-01.  An order's timestamp *)
(* "YYYY-MM-DDTtime" is the record [day, tick].  Share counts, prices and  *)
(* amounts are integers and the quotients of time_weighted_returns are     *)
(* exact fractions <<numerator, denominator>>.                             *)
(***************************************************************************)
EXTENDS Integers, Sequences, FiniteSets, TLC

VARIABLES
    orders,        \* the order history handed to the pipeline (gen_port_anal: orders)
    now,           \* the day datetime.now() falls on
    pc,            \* position in gen_port_anal: the last step that returned
    error,         \* the exception that ended the run at the next step, "" when none
    port_hist,     \* table returned by portfolio_history
    port_cache,    \* files written under .rh_cache/port_history
    cost_cache,    \* get_stock_costs: per-date cost buckets
    stock_costs,   \* table returned by get_stock_costs
    transfer_hist, \* transfers handed to time_weighted_returns
    price_files,   \* .rh_cache/historical_prices: symbol -> rows of (date, close)
    cash_flow,     \* time_weighted_returns: cash-flow buckets
    port_value,    \* time_weighted_returns: adjusted portfolio value per tracked date
    hpr,           \* time_weighted_returns: hpr_n per date
    twr,           \* table returned by time_weighted_returns
    price_requests, \* requests sent to the price provider: [symbol, range]
    info_log,      \* save_stock_prices: the "[INFO] Found ... needs updating" lines
    runs,          \* number of runs of save_stock_prices so far
    price_cache,   \* table returned by the last call of get_stock_cache
    cache_query,   \* the [start, end] of that call, {} before any call
    authorization, \* headers['Authorization']: "absent", "token" or "None"
    order_cache,   \* .rh_cache/order_history: [exists, files in name order]
    pages,         \* the pages of orders the brokerage serves, in cursor order
    net_requests,  \* requests sent to the brokerage: [endpoint, page, url]
    instrument_cache, \* self.instrument_cache: url -> symbol
    use_cache,     \* the use_cache argument of the last full_order_history call
    fetched,       \* full_order_history: result, the raw records collected from the pages
    replay,        \* portfolio_history: port_hist, running_portfolio and all_stocks in the replay loop
    pending,       \* portfolio_history: the sorted orders the replay loop has yet to take
    op_log,        \* the calls made on the instance, each with what its wrapper and body did
    symbols,       \* the symbol the brokerage has for each instrument url
    ach_pages      \* the pages of transfers the brokerage serves, in cursor order

pricesVars == <<price_requests, info_log, runs, price_cache, cache_query>>

ordersVars == <<authorization, order_cache, pages, net_requests, instrument_cache,
                use_cache, fetched>>

replayVars == <<replay, pending>>

sessionVars == <<op_log, symbols, ach_pages>>

vars == <<orders, now, pc, error, port_hist, port_cache, cost_cache, stock_costs,
          transfer_hist, price_files, cash_flow, port_value, hpr, twr,
          pricesVars, ordersVars, replayVars, sessionVars>>

----------------------------------------------------------------------------
(* Bounds of the model *)

MaxDay == 3
MaxOrders == 2
TwrLastDay == 4
MaxTransfers == 1
MaxRuns == 2
MaxPages == 2
MaxCalls == 3

Syms == {"A", "B"}
Ticks == {0, 1}

----------------------------------------------------------------------------
(* Generic helpers *)

EmptyDict == [x \in {} |-> 0]

Min(S) == CHOOSE x \in S : \A y \in S : x <= y

Max(S) == CHOOSE x \in S : \A y \in S : y <= x

RECURSIVE SumOn(_, _)
SumOn(f, S) ==
    IF S = {} THEN 0
    ELSE LET x == CHOOSE x \in S : TRUE
         IN  f[x] + SumOn(f, S \ {x})

\* sum_dict(d): the sum of the values of a dict
sum_dict(d) == SumOn(d, DOMAIN d)

\* 0 = Monday .. 6 = Sunday (day 0 is a Friday)
Weekday(d) == (d + 4) % 7

\* rrule(DAILY, dtstart, until, byweekday=(MO..FR)): the weekdays of start..end
daterange(start_date, end_date) == {d \in start_date..end_date : Weekday(d) < 5}

----------------------------------------------------------------------------
(* RobinhoodOrder *)

\* getDate: the part of the timestamp before "T"
getDate(log) == log.date.day

\* getPrice without the sign of a buy
getPriceUnsigned(log) == log.price * log.shares

\* getPrice: the signed cost of the order
getPrice(log) ==
    IF log.action = "buy" THEN -1 * log.price * log.shares
    ELSE log.price * log.shares

----------------------------------------------------------------------------
(* portfolio_history *)

\* order of two timestamps (strings compared by sorted)
DateLess(a, b) == a.day < b.day \/ (a.day = b.day /\ a.tick < b.tick)

RECURSIVE Insert(_, _)
Insert(log, s) ==
    IF s = <<>> THEN <<log>>
    ELSE IF DateLess(log.date, Head(s).date) THEN <<log>> \o s
    ELSE <<Head(s)>> \o Insert(log, Tail(s))

RECURSIVE SortInto(_, _)
SortInto(s, acc) ==
    IF s = <<>> THEN acc ELSE SortInto(Tail(s), Insert(Head(s), acc))

\* sorted(order_history, key=lambda x: x.date): a stable sort
SortedByDate(order_history) == SortInto(order_history, <<>>)

\* running_portfolio[log.symbol] +/-= shares, the symbol starting at 0
ApplyTrade(portfolio, log) ==
    LET p0 == IF log.symbol \in DOMAIN portfolio THEN portfolio
              ELSE portfolio @@ (log.symbol :> 0)
    IN  [p0 EXCEPT ![log.symbol] =
            IF log.action = "sell" THEN @ - log.shares ELSE @ + log.shares]

\* running_portfolio stored under a new date without the deep copy: every
\* date holds the one object the trades are applied to
ReplayStepShared(st, log) ==
    LET date  == getDate(log)
        base  == IF st.cur = {} THEN EmptyDict
                 ELSE st.snapshots[CHOOSE c \in st.cur : TRUE]
        dates == DOMAIN st.snapshots \cup {date}
    IN  [snapshots  |-> [d \in dates |-> ApplyTrade(base, log)],
         cur        |-> {date},
         all_stocks |-> st.all_stocks \cup {log.symbol}]

\* One iteration of the replay loop.  running_portfolio is the object stored
\* at snapshots[cur] (cur = {} before the first order): a date not seen yet
\* stores a deep copy of it under that date and makes the copy the running
\* object; the trade is then applied to the running object.
ReplayStep(st, log) ==
    LET date  == getDate(log)
        isNew == date \notin DOMAIN st.snapshots
        base  == IF st.cur = {} THEN EmptyDict
                 ELSE st.snapshots[CHOOSE c \in st.cur : TRUE]
        snap1 == IF isNew THEN st.snapshots @@ (date :> base) ELSE st.snapshots
        cur1  == IF isNew THEN date ELSE CHOOSE c \in st.cur : TRUE
    IN  [snapshots  |-> [snap1 EXCEPT ![cur1] = ApplyTrade(@, log)],
         cur        |-> {cur1},
         all_stocks |-> st.all_stocks \cup {log.symbol}]

RECURSIVE ReplayFrom(_, _)
ReplayFrom(logs, st) ==
    IF logs = <<>> THEN st ELSE ReplayFrom(Tail(logs), ReplayStep(st, Head(logs)))

\* the replay loop over the sorted order history
Replay(order_history) ==
    ReplayFrom(SortedByDate(order_history),
               [snapshots |-> EmptyDict, cur |-> {}, all_stocks |-> {}])

\* The loop over daterange(start_date, end_date).  running is {} for None
\* and {p} for the portfolio p.  With running None, `stock not in
\* running_portfolio` raises TypeError.
RECURSIVE FillFrom(_, _, _, _, _)
FillFrom(dates, snapshots, all_stocks, running, result) ==
    IF dates = {} THEN [status |-> "ok", result |-> result]
    ELSE LET d  == Min(dates)
             r1 == IF d \in DOMAIN snapshots THEN {snapshots[d]} ELSE running
         IN  IF r1 = {} /\ all_stocks # {}
             THEN [status |-> "TypeError", result |-> result]
             ELSE LET p   == CHOOSE p \in r1 : TRUE
                      row == [s \in all_stocks |->
                                 IF s \in DOMAIN p THEN p[s] ELSE 0]
                  IN  FillFrom(dates \ {d}, snapshots, all_stocks, r1,
                               result @@ (d :> row))

\* portfolio_history as a function of the order history and the clock:
\* the exception or "ok", the returned table and the cache file written
PortfolioHistoryResult(order_history, today) ==
    LET rp == Replay(order_history)
    IN  IF DOMAIN rp.snapshots = {}
        THEN [status |-> "IndexError", result |-> EmptyDict, files |-> <<>>]
        ELSE LET start_date == Min(DOMAIN rp.snapshots)
                 f == FillFrom(daterange(start_date, today), rp.snapshots,
                               rp.all_stocks, {}, EmptyDict)
             IN  [status |-> f.status,
                  result |-> IF f.status = "ok" THEN f.result ELSE EmptyDict,
                  files  |-> <<[header |-> rp.all_stocks, rows |-> f.result]>>]

----------------------------------------------------------------------------
(* get_stock_costs *)

\* a roll to the previous key instead of the next one
RollBackward(date, keys) ==
    IF date \in keys THEN {date}
    ELSE IF \A k \in keys : k > date THEN {}
    ELSE {CHOOSE k \in keys : k < date /\ \A j \in keys : j < date => j <= k}

\* while date not in cost_cache: date += one day.  {d} when the loop ends at
\* d; {} when no key is on or after date: the loop then runs until
\* datetime + timedelta leaves the calendar and raises OverflowError.
RECURSIVE RollForward(_, _)
RollForward(date, keys) ==
    IF date \in keys THEN {date}
    ELSE IF \A k \in keys : k < date THEN {}
    ELSE RollForward(date + 1, keys)

\* the loop over order_history that books each order's cost
RECURSIVE BookCosts(_, _)
BookCosts(logs, cache) ==
    IF logs = <<>> THEN [status |-> "ok", cost_cache |-> cache]
    ELSE LET log == Head(logs)
             at  == RollForward(getDate(log), DOMAIN cache)
         IN  IF at = {} THEN [status |-> "OverflowError", cost_cache |-> cache]
             ELSE LET d == CHOOSE d \in at : TRUE
                  IN  BookCosts(Tail(logs),
                        [cache EXCEPT ![d][log.symbol] = @ + getPrice(log)])

\* the running sum over the sorted dates
RECURSIVE SumCosts(_, _, _, _)
SumCosts(dates, cache, running, acc) ==
    IF dates = {} THEN acc
    ELSE LET d  == Min(dates)
             r1 == [s \in DOMAIN running |->
                       IF s \in DOMAIN cache[d] THEN running[s] + cache[d][s]
                       ELSE running[s]]
         IN  SumCosts(dates \ {d}, cache, r1, acc @@ (d :> r1))

\* the rows of cost_cache are the rows of port_hist, not dicts of their own
InputsSharedWithCosts(order_history, table, cache) ==
    [order_history |-> order_history,
     port_hist |-> [d \in DOMAIN table |-> cache[d]]]

\* The arguments as get_stock_costs leaves them.  It assigns to cost_cache,
\* to its rows, to running_cost_cache and to sum_cost_cache; the rows of
\* cost_cache are dicts made by a comprehension over port_hist[date], and
\* order_history and port_hist are read only.
InputsAfterCosts(order_history, table, cache) ==
    [order_history |-> order_history, port_hist |-> table]

GetStockCostsResult(order_history, table) ==
    LET zero   == [d \in DOMAIN table |-> [s \in DOMAIN table[d] |-> 0]]
        booked == BookCosts(order_history, zero)
    IN  IF booked.status # "ok"
        THEN [status |-> booked.status, cost_cache |-> booked.cost_cache,
              result |-> EmptyDict]
        ELSE IF DOMAIN zero = {}
        THEN [status |-> "IndexError", cost_cache |-> booked.cost_cache,
              result |-> EmptyDict]
        ELSE LET first == Min(DOMAIN zero)
             IN  [status |-> "ok", cost_cache |-> booked.cost_cache,
                  result |-> SumCosts(DOMAIN zero, booked.cost_cache,
                                      [s \in DOMAIN zero[first] |-> 0], EmptyDict)]

----------------------------------------------------------------------------
(* The pipeline of gen_port_anal from the order history to the cost table *)

\* the orders of one symbol trade in lots of a fixed size and price
LotShares(s) == IF s = "A" THEN 2 ELSE 1
LotPrice(s) == IF s = "A" THEN 10 ELSE 30

OrdersUpTo(today) ==
    { [symbol |-> s, action |-> a, shares |-> LotShares(s), price |-> LotPrice(s),
       date |-> [day |-> d, tick |-> t]] :
         s \in Syms, a \in {"buy", "sell"}, d \in 0..today, t \in Ticks }

RECURSIVE SeqsUpTo(_, _)
SeqsUpTo(S, n) ==
    IF n = 0 THEN {<<>>}
    ELSE LET shorter == SeqsUpTo(S, n - 1)
         IN  shorter \cup {Append(q, x) : q \in shorter, x \in S}

\* no price request sent and no price cache read yet
PricesUntouched ==
    /\ price_requests = <<>>
    /\ info_log = <<>>
    /\ runs = 0
    /\ price_cache = EmptyDict
    /\ cache_query = {}

\* port_hist, running_portfolio and all_stocks before the replay loop
ReplayStart == [snapshots |-> EmptyDict, cur |-> {}, all_stocks |-> {}]

\* the replay loop is taken as a whole
ReplayUntraced ==
    /\ replay = ReplayStart
    /\ pending = <<>>

InstrumentUrls == {"instruments/A", "instruments/B"}

\* the symbols the brokerage lists the instruments under
ListedSymbols ==
    [u \in InstrumentUrls |-> IF u = "instruments/A" THEN "A" ELSE "B"]

\* no call is logged, the listing is the usual one and no transfer is served
SessionUntraced ==
    /\ op_log = <<>>
    /\ symbols = ListedSymbols
    /\ ach_pages = <<>>

\* the instance is logged in and the brokerage side is left out
OrdersFetched ==
    /\ authorization = "token"
    /\ order_cache = [exists |-> FALSE, files |-> <<>>]
    /\ pages = <<>>
    /\ net_requests = <<>>
    /\ instrument_cache = EmptyDict
    /\ use_cache = FALSE
    /\ fetched = <<>>

Init ==
    /\ now \in 0..MaxDay
    /\ orders \in SeqsUpTo(OrdersUpTo(now), MaxOrders)
    /\ pc = "fetched"
    /\ error = ""
    /\ port_hist = EmptyDict
    /\ port_cache = <<>>
    /\ cost_cache = EmptyDict
    /\ stock_costs = EmptyDict
    /\ transfer_hist = <<>>
    /\ price_files = EmptyDict
    /\ cash_flow = EmptyDict
    /\ port_value = EmptyDict
    /\ hpr = EmptyDict
    /\ twr = EmptyDict
    /\ PricesUntouched
    /\ OrdersFetched
    /\ ReplayUntraced
    /\ SessionUntraced

PortfolioHistory ==
    /\ pc = "fetched" /\ error = ""
    /\ LET r == PortfolioHistoryResult(orders, now)
       IN  /\ port_hist' = r.result
           /\ port_cache' = port_cache \o r.files
           /\ error' = IF r.status = "ok" THEN "" ELSE r.status
           /\ pc' = IF r.status = "ok" THEN "reconstructed" ELSE pc
    /\ UNCHANGED <<orders, now, cost_cache, stock_costs, transfer_hist, price_files,
                   cash_flow, port_value, hpr, twr, pricesVars, ordersVars,
                   replayVars, sessionVars>>

GetStockCosts ==
    /\ pc = "reconstructed" /\ error = ""
    /\ LET r == GetStockCostsResult(orders, port_hist)
           a == InputsAfterCosts(orders, port_hist, r.cost_cache)
       IN  /\ cost_cache' = r.cost_cache
           /\ stock_costs' = r.result
           /\ orders' = a.order_history
           /\ port_hist' = a.port_hist
           /\ error' = IF r.status = "ok" THEN "" ELSE r.status
           /\ pc' = IF r.status = "ok" THEN "costed" ELSE pc
    /\ UNCHANGED <<now, port_cache, transfer_hist, price_files,
                   cash_flow, port_value, hpr, twr, pricesVars, ordersVars,
                   replayVars, sessionVars>>

Next == PortfolioHistory \/ GetStockCosts

Spec == Init /\ [][Next]_vars

----------------------------------------------------------------------------
(* The replay loop of portfolio_history, one order at a time *)

InitReplay ==
    /\ now \in 0..MaxDay
    /\ orders \in SeqsUpTo(OrdersUpTo(now), MaxOrders)
    /\ pc = "fetched"
    /\ error = ""
    /\ port_hist = EmptyDict
    /\ port_cache = <<>>
    /\ cost_cache = EmptyDict
    /\ stock_costs = EmptyDict
    /\ transfer_hist = <<>>
    /\ price_files = EmptyDict
    /\ cash_flow = EmptyDict
    /\ port_value = EmptyDict
    /\ hpr = EmptyDict
    /\ twr = EmptyDict
    /\ PricesUntouched
    /\ OrdersFetched
    /\ SessionUntraced
    /\ replay = ReplayStart
    /\ pending = SortedByDate(orders)

\* one iteration of `for log in order_history` on the sorted copy
ReplayTrade ==
    /\ pc = "fetched" /\ error = ""
    /\ pending # <<>>
    /\ replay' = ReplayStep(replay, Head(pending))
    /\ pending' = Tail(pending)
    /\ UNCHANGED <<orders, now, pc, error, port_hist, port_cache, cost_cache,
                   stock_costs, transfer_hist, price_files, cash_flow, port_value,
                   hpr, twr, pricesVars, ordersVars, sessionVars>>

NextReplay == ReplayTrade

SpecReplay == InitReplay /\ [][NextReplay]_vars

----------------------------------------------------------------------------
(* get_stock_cache (IexStock.py) *)

\* the rows of one price file: result[date][stock] = price for the dates of
\* start..end, a later row of the same date replacing an earlier one
RECURSIVE CacheRows(_, _, _, _, _)
CacheRows(rows, stock, start, end, result) ==
    IF rows = <<>> THEN result
    ELSE LET date  == Head(rows).date
             price == Head(rows).close
             r1 == IF date >= start /\ date <= end
                   THEN LET r0 == IF date \in DOMAIN result THEN result
                                  ELSE result @@ (date :> EmptyDict)
                        IN  [r0 EXCEPT ![date] =
                                (stock :> price) @@ r0[date]]
                   ELSE result
         IN  CacheRows(Tail(rows), stock, start, end, r1)

RECURSIVE CacheFiles(_, _, _, _, _)
CacheFiles(stocks, files, start, end, result) ==
    IF stocks = {} THEN result
    ELSE LET stock == CHOOSE x \in stocks : TRUE
         IN  CacheFiles(stocks \ {stock}, files, start, end,
                        CacheRows(files[stock], stock, start, end, result))

\* date < end in place of date <= end
get_stock_cache_end_excluded(files, start, end) ==
    CacheFiles(DOMAIN files, files, start, end - 1, EmptyDict)

\* files: symbol -> data rows of <symbol>.csv (the header row is skipped)
get_stock_cache(files, start, end) ==
    CacheFiles(DOMAIN files, files, start, end, EmptyDict)

----------------------------------------------------------------------------
(* Exact fractions <<n, d>>, d > 0, in lowest terms, for the float quotients *)

Abs(x) == IF x < 0 THEN 0 - x ELSE x

RECURSIVE Gcd(_, _)
Gcd(a, b) == IF b = 0 THEN a ELSE Gcd(b, a % b)

Frac(n, d) ==
    LET g == Gcd(Abs(n), Abs(d))
    IN  IF d < 0 THEN <<(0 - n) \div g, (0 - d) \div g>>
        ELSE <<n \div g, d \div g>>

FracMul(a, b) == Frac(a[1] * b[1], a[2] * b[2])

----------------------------------------------------------------------------
(* time_weighted_returns *)

\* a missing price makes the value of the whole day 0
PortStockValueAllOrNothing(portfolio, day, stock_cache) ==
    IF \E stock \in DOMAIN portfolio :
          day \notin DOMAIN stock_cache \/ stock \notin DOMAIN stock_cache[day]
    THEN 0
    ELSE SumOn([stock \in DOMAIN portfolio |->
                   stock_cache[day][stock] * portfolio[stock]], DOMAIN portfolio)

\* port_stock_value of one day: shares * cached price, 0 without a cached price
PortStockValue(portfolio, day, stock_cache) ==
    LET value == [stock \in DOMAIN portfolio |->
                    (IF day \notin DOMAIN stock_cache
                        \/ stock \notin DOMAIN stock_cache[day]
                     THEN 0 ELSE stock_cache[day][stock]) * portfolio[stock]]
    IN  SumOn(value, DOMAIN portfolio)

\* port_value after the first loop: the days whose stock value is not 0
PortValueInit(table, stock_cache) ==
    LET days == {day \in DOMAIN table :
                    PortStockValue(table[day], day, stock_cache) # 0}
    IN  [day \in days |-> PortStockValue(table[day], day, stock_cache)]

\* cash_flow[day] = 0 placed after the if instead of inside it
CashFlowInitEveryDay(table, stock_cache) == [day \in DOMAIN table |-> 0]

\* cash_flow after the first loop: 0 on the days whose stock value is not 0
CashFlowInit(table, stock_cache) ==
    LET days == {day \in DOMAIN table :
                    PortStockValue(table[day], day, stock_cache) # 0}
    IN  [day \in days |-> 0]

\* a roll to the last key whatever the date
RollToLastDate(date, keys) ==
    IF keys = {} THEN {} ELSE {CHOOSE k \in keys : \A j \in keys : j <= k}

\* while date not in cash_flow: date += one day ({} as for RollForward)
RECURSIVE RollForwardCash(_, _)
RollForwardCash(date, keys) ==
    IF date \in keys THEN {date}
    ELSE IF \A k \in keys : k < date THEN {}
    ELSE RollForwardCash(date + 1, keys)

\* the amount a transfer adds to its bucket
SignedAmount(log) ==
    IF log.type = "deposit" THEN log.amount ELSE 0 - log.amount

\* the loop over transfer_hist
RECURSIVE BookTransfers(_, _)
BookTransfers(logs, flow) ==
    IF logs = <<>> THEN [status |-> "ok", cash_flow |-> flow]
    ELSE LET log == Head(logs)
             at  == RollForwardCash(log.date, DOMAIN flow)
         IN  IF at = {} THEN [status |-> "OverflowError", cash_flow |-> flow]
             ELSE LET d == CHOOSE d \in at : TRUE
                  IN  BookTransfers(Tail(logs),
                        [flow EXCEPT ![d] = @ + SignedAmount(log)])

\* cum_cash: the running sum of cash_flow over the sorted days
CumCash(flow) ==
    [day \in DOMAIN flow |->
        SumOn(flow, {d \in DOMAIN flow : d <= day})]

\* the adjustment without the cost basis
AdjustedValueNoCosts(value, cum_cash, costs) ==
    [day \in DOMAIN value |-> value[day] + cum_cash[day]]

\* port_value[day] += cum_cash[day] + sum_dict(stock_costs[day])
AdjustedValue(value, cum_cash, costs) ==
    [day \in DOMAIN value |-> value[day] + cum_cash[day] + sum_dict(costs[day])]

\* the return taken over the end value
HoldingPeriodReturnOverEnd(end_val, init_val, cur_cash_flow) ==
    Frac(end_val - (init_val + cur_cash_flow), end_val)

\* the return without the cash flow of the day
HoldingPeriodReturnNoFlow(end_val, init_val, cur_cash_flow) ==
    Frac(end_val - init_val, init_val)

\* hpr_n = (end_val - (init_val + cur_cash_flow)) / (init_val + cur_cash_flow)
HoldingPeriodReturn(end_val, init_val, cur_cash_flow) ==
    Frac(end_val - (init_val + cur_cash_flow), init_val + cur_cash_flow)

\* cum_product *= (hpr_n + 1)
Compound(cum_product, hpr_n) ==
    FracMul(cum_product, Frac(hpr_n[1] + hpr_n[2], hpr_n[2]))

\* (cum_product - 1) * 100
ReturnPercent(cum_product) ==
    Frac((cum_product[1] - cum_product[2]) * 100, cum_product[2])

\* the loop over sorted(port_value.keys()); prev is {} for None
RECURSIVE ReturnsLoop(_, _, _, _, _, _, _)
ReturnsLoop(days, prev, cum_product, flow, value, hprs, twrs) ==
    IF days = {} THEN [status |-> "ok", hpr |-> hprs, twr |-> twrs]
    ELSE LET day == Min(days)
         IN  IF prev = {}
             THEN ReturnsLoop(days \ {day}, {day}, cum_product, flow, value,
                              hprs, twrs)
             ELSE LET prev_date == CHOOSE d \in prev : TRUE
                      cur_cash_flow == flow[day]
                      end_val  == value[day]
                      init_val == value[prev_date]
                  IN  IF init_val + cur_cash_flow = 0
                      THEN [status |-> "ZeroDivisionError", hpr |-> hprs,
                            twr |-> twrs]
                      ELSE LET hpr_n == HoldingPeriodReturn(end_val, init_val,
                                                            cur_cash_flow)
                               cum1 == Compound(cum_product, hpr_n)
                           IN  ReturnsLoop(days \ {day}, {day}, cum1, flow, value,
                                   hprs @@ (day :> hpr_n),
                                   twrs @@ (day :> ReturnPercent(cum1)))

\* time_weighted_returns as a function of its arguments and the price files
\* The arguments and the price files as time_weighted_returns leaves them.
\* It assigns to cash_flow, port_value, cum_cash and twr, which it creates,
\* and to its local date; port_hist, transfer_hist and stock_costs are read
\* only and the price files are opened for reading by get_stock_cache.
InputsAfterReturns(table, transfers, costs, files) ==
    [port_hist |-> table, transfer_hist |-> transfers, stock_costs |-> costs,
     files |-> files]

TimeWeightedReturnsResult(table, transfers, costs, files) ==
    IF DOMAIN table = {}
    THEN [status |-> "IndexError", cash_flow |-> EmptyDict,
          port_value |-> EmptyDict, hpr |-> EmptyDict, twr |-> EmptyDict]
    ELSE LET start_date  == Min(DOMAIN table)
             end_date    == Max(DOMAIN table)
             stock_cache == get_stock_cache(files, start_date, end_date)
             value0 == PortValueInit(table, stock_cache)
             booked == BookTransfers(transfers, CashFlowInit(table, stock_cache))
         IN  IF booked.status # "ok"
             THEN [status |-> booked.status, cash_flow |-> booked.cash_flow,
                   port_value |-> value0, hpr |-> EmptyDict, twr |-> EmptyDict]
             ELSE LET value == AdjustedValue(value0, CumCash(booked.cash_flow),
                                             costs)
                      r == ReturnsLoop(DOMAIN value, {}, <<1, 1>>,
                                       booked.cash_flow, value, EmptyDict,
                                       EmptyDict)
                  IN  [status |-> r.status, cash_flow |-> booked.cash_flow,
                       port_value |-> value, hpr |-> r.hpr,
                       twr |-> IF r.status = "ok" THEN r.twr ELSE EmptyDict]

----------------------------------------------------------------------------
(* time_weighted_returns on a holdings table, a cost table, transfers and    *)
(* price files drawn from bounded sets                                       *)

TwrDays == daterange(0, TwrLastDay)

\* 10 shares of A held from the first date of the table on
HoldingsTables ==
    { [d \in daterange(first, TwrLastDay) |-> [s \in {"A"} |-> 10]] :
         first \in TwrDays }

\* the shares were bought for nothing or for 10 each
CostTables(table) ==
    { [d \in DOMAIN table |-> [s \in DOMAIN table[d] |-> (0 - paid) * table[d][s]]] :
         paid \in {0, 10} }

\* the rows of a price file: the days of a set in ascending order
RECURSIVE RowsOf(_, _)
RowsOf(days, close) ==
    IF days = {} THEN <<>>
    ELSE LET d == Min(days)
         IN  <<[date |-> d, close |-> close[d]]>> \o RowsOf(days \ {d}, close)

PriceFiles ==
    { [s \in {"A"} |-> RowsOf(days, close)] :
         days \in SUBSET TwrDays, close \in [TwrDays -> {10, 11}] }

Transfers ==
    { [date |-> d, amount |-> 50, type |-> t] :
         d \in 0..TwrLastDay, t \in {"deposit", "withdraw"} }

InitTWR ==
    /\ now = TwrLastDay
    /\ orders = <<>>
    /\ pc = "priced"
    /\ error = ""
    /\ port_hist \in HoldingsTables
    /\ port_cache = <<>>
    /\ cost_cache = EmptyDict
    /\ stock_costs \in CostTables(port_hist)
    /\ transfer_hist \in SeqsUpTo(Transfers, MaxTransfers)
    /\ price_files \in PriceFiles
    /\ cash_flow = EmptyDict
    /\ port_value = EmptyDict
    /\ hpr = EmptyDict
    /\ twr = EmptyDict
    /\ PricesUntouched
    /\ OrdersFetched
    /\ ReplayUntraced
    /\ SessionUntraced

TimeWeightedReturns ==
    /\ pc = "priced" /\ error = ""
    /\ LET r == TimeWeightedReturnsResult(port_hist, transfer_hist, stock_costs,
                                          price_files)
       IN  /\ cash_flow' = r.cash_flow
           /\ port_value' = r.port_value
           /\ hpr' = r.hpr
           /\ twr' = r.twr
           /\ error' = IF r.status = "ok" THEN "" ELSE r.status
           /\ pc' = IF r.status = "ok" THEN "done" ELSE pc
    /\ LET a == InputsAfterReturns(port_hist, transfer_hist, stock_costs,
                                   price_files)
       IN  /\ port_hist' = a.port_hist
           /\ transfer_hist' = a.transfer_hist
           /\ stock_costs' = a.stock_costs
           /\ price_files' = a.files
    /\ UNCHANGED <<orders, now, port_cache, cost_cache, pricesVars, ordersVars,
                   replayVars, sessionVars>>

NextTWR == TimeWeightedReturns

SpecTWR == InitTWR /\ [][NextTWR]_vars

----------------------------------------------------------------------------
(* time_weighted_returns on a holdings table of two symbols, the price file *)
(* of either symbol lacking any of the dates, the file of B lacking too     *)

TwoSymbolTables ==
    { [d \in daterange(first, TwrLastDay) |-> [s \in Syms |-> LotShares(s) * 5]] :
         first \in TwrDays }

TwoSymbolPriceFiles ==
    { [s \in stocks |-> RowsOf(days[s], [d \in TwrDays |-> LotPrice(s) + (d % 2)])] :
         stocks \in {{"A"}, Syms}, days \in [Syms -> SUBSET TwrDays] }

InitTwoSymbols ==
    /\ now = TwrLastDay
    /\ orders = <<>>
    /\ pc = "priced"
    /\ error = ""
    /\ port_hist \in TwoSymbolTables
    /\ port_cache = <<>>
    /\ cost_cache = EmptyDict
    /\ stock_costs \in CostTables(port_hist)
    /\ transfer_hist = <<>>
    /\ price_files \in TwoSymbolPriceFiles
    /\ cash_flow = EmptyDict
    /\ port_value = EmptyDict
    /\ hpr = EmptyDict
    /\ twr = EmptyDict
    /\ PricesUntouched
    /\ OrdersFetched
    /\ ReplayUntraced
    /\ SessionUntraced

SpecTwoSymbols == InitTwoSymbols /\ [][NextTWR]_vars

----------------------------------------------------------------------------
(* The calendar: datetime.strptime(date, "%Y-%m-%d") of a day number *)

IsLeap(y) == (y % 4 = 0 /\ y % 100 # 0) \/ y % 400 = 0

DaysInYear(y) == IF IsLeap(y) THEN 366 ELSE 365

MonthLengths(y) ==
    <<31, IF IsLeap(y) THEN 29 ELSE 28, 31, 30, 31, 30, 31, 31, 30, 31, 30, 31>>

\* the day number of 1 January of year y
RECURSIVE DaysBeforeYear(_)
DaysBeforeYear(y) ==
    IF y = 2021 THEN 0
    ELSE IF y > 2021 THEN DaysBeforeYear(y - 1) + DaysInYear(y - 1)
    ELSE DaysBeforeYear(y + 1) - DaysInYear(y)

RECURSIVE DaysBeforeMonth(_, _)
DaysBeforeMonth(y, m) ==
    IF m = 1 THEN 0 ELSE DaysBeforeMonth(y, m - 1) + MonthLengths(y)[m - 1]

\* the day number of a year, month and day of the month
Ordinal(y, m, day) == DaysBeforeYear(y) + DaysBeforeMonth(y, m) + day - 1

RECURSIVE YearOf(_, _)
YearOf(y, d) ==
    IF d < DaysBeforeYear(y) THEN YearOf(y - 1, d)
    ELSE IF d >= DaysBeforeYear(y + 1) THEN YearOf(y + 1, d)
    ELSE y

RECURSIVE MonthOf(_, _, _)
MonthOf(y, m, d) ==
    IF d >= Ordinal(y, m, 1) + MonthLengths(y)[m] THEN MonthOf(y, m + 1, d) ELSE m

\* the year, month and day of the month of day number d
strptime(d) ==
    LET y == YearOf(2021, d)
        m == MonthOf(y, 1, d)
    IN  [year |-> y, month |-> m, day |-> d - Ordinal(y, m, 1) + 1]

\* diff_month(d1, d2) of two parsed dates
diff_month(d1, d2) == (d1.year - d2.year) * 12 + d1.month - d2.month

----------------------------------------------------------------------------
(* The price provider behind IexStock.hist_data *)

\* the same day of the month n months later (n < 0: earlier), the last day of
\* the month when the month is shorter
AddMonths(d, n) ==
    LET t   == strptime(d)
        idx == t.year * 12 + (t.month - 1) + n
        y   == idx \div 12
        m   == (idx % 12) + 1
    IN  Ordinal(y, m, Min({t.day, MonthLengths(y)[m]}))

\* the days the provider has a close for: 2021-01-04, 2021-12-31, 2022-01-03,
\* 2022-12-30, 2023-01-03, 2023-05-31, 2023-07-31, 2023-08-01, 2023-08-15,
\* 2023-08-31, 2023-09-22, 2023-09-27, 2023-09-28, 2023-09-29, 2023-10-02
TradingDays ==
    {3, 364, 367, 728, 732, 880, 941, 942, 956, 972, 994, 999, 1000, 1001, 1004}

Close(symbol, d) == LotPrice(symbol) + (d % 3)

\* the first day of the chart of a range keyword asked on day today
ChartStart(date_range, today) ==
    CASE date_range = "5d" -> today - 6
      [] date_range = "1m" -> AddMonths(today, 0 - 1)
      [] date_range = "3m" -> AddMonths(today, 0 - 3)
      [] date_range = "6m" -> AddMonths(today, 0 - 6)
      [] date_range = "1y" -> AddMonths(today, 0 - 12)
      [] date_range = "2y" -> AddMonths(today, 0 - 24)
      [] OTHER -> Min(TradingDays)

\* hist_data(symbol, date_range) asked on day today: rows in ascending order
hist_data(symbol, date_range, today) ==
    LET first == ChartStart(date_range, today)
    IN  RowsOf({d \in TradingDays : first <= d /\ d <= today},
               [d \in TradingDays |-> Close(symbol, d)])

----------------------------------------------------------------------------
(* save_stock_prices *)

\* the range keyword of an update from last cached date ld to end date ed
RequestRange(ld, ed) ==
    LET l == strptime(ld)
        e == strptime(ed)
    IN  IF e.year - l.year >= 2 THEN "max"
        ELSE IF e.year - l.year = 1 THEN "2y"
        ELSE IF diff_month(e, l) > 6 THEN "1y"
        ELSE IF diff_month(e, l) > 3 THEN "6m"
        ELSE IF diff_month(e, l) > 1 THEN "3m"
        ELSE IF ed - ld > 5 THEN "1m"
        ELSE "5d"

\* every row of data written whatever its date
NewerRowsUnfiltered(data, ld) == data

\* logdate >= ld in place of logdate > ld
RowsFromLastDate(data, ld) == SelectSeq(data, LAMBDA log : log.date >= ld)

\* the rows of data written by an update: those dated after ld
NewerRows(data, ld) == SelectSeq(data, LAMBDA log : log.date > ld)

\* the body of the loop for one stock; acc = [status, files, requests, info]
SaveOneStock(stock, end_date, today, acc) ==
    IF stock \notin DOMAIN acc.files
    THEN [acc EXCEPT
            !.files = (stock :> hist_data(stock, "max", today)) @@ acc.files,
            !.requests = Append(acc.requests, [symbol |-> stock, range |-> "max"])]
    ELSE IF acc.files[stock] = <<>>
    THEN \* last_date is the header text: strptime raises
         [acc EXCEPT !.status = "ValueError"]
    ELSE LET last_date == acc.files[stock][Len(acc.files[stock])].date
         IN  IF last_date # end_date
             THEN LET request_range == RequestRange(last_date, end_date)
                      data == hist_data(stock, request_range, today)
                  IN  [acc EXCEPT
                         !.info = Append(acc.info,
                                     [stock |-> stock, last_date |-> last_date,
                                      end_date |-> end_date,
                                      range |-> request_range]),
                         !.requests = Append(acc.requests,
                                     [symbol |-> stock, range |-> request_range]),
                         !.files = [acc.files EXCEPT ![stock] =
                                       acc.files[stock] \o NewerRows(data, last_date)]]
             ELSE acc

\* for stock in stocks, in the iteration order of the dictionary
RECURSIVE SaveLoop(_, _, _, _)
SaveLoop(stocks, end_date, today, acc) ==
    IF stocks = <<>> \/ acc.status # "ok" THEN acc
    ELSE SaveLoop(Tail(stocks), end_date, today,
                  SaveOneStock(Head(stocks), end_date, today, acc))

\* the orders in which a dictionary may list the keys S
KeyOrders(S) ==
    {q \in [1..Cardinality(S) -> S] :
        \A i, j \in 1..Cardinality(S) : i # j => q[i] # q[j]}

\* save_stock_prices(table) run on day today over the files
SaveStockPricesResult(table, files, stocks, today) ==
    IF DOMAIN table = {}
    THEN [status |-> "IndexError", files |-> files, requests |-> <<>>, info |-> <<>>]
    ELSE SaveLoop(stocks, Max(DOMAIN table), today,
                  [status |-> "ok", files |-> files, requests |-> <<>>,
                   info |-> <<>>])

----------------------------------------------------------------------------
(* save_stock_prices and get_stock_cache on price files drawn from bounded sets *)

NowDays == {367, 1001, 1004}

EndDays == {367, 1001}

QueryDays == {364, 367, 1001}

\* a file written by an earlier run: the header and the rows up to last
PriceFileUpTo(s, last) ==
    RowsOf({d \in TradingDays : d <= last}, [d \in TradingDays |-> Close(s, d)])

\* the last dates of the files of a symbol; -1 stands for the header alone
LastDates(s, today) ==
    IF s = "A" THEN {0 - 1} \cup {d \in TradingDays : d <= today}
    ELSE {0 - 1, Min(EndDays)}

PriceFilesUpTo(today) ==
    { [s \in S |-> PriceFileUpTo(s, last[s])] :
         S \in SUBSET Syms,
         last \in {l \in [Syms -> {0 - 1} \cup TradingDays] :
                      \A s \in Syms : l[s] \in LastDates(s, today)} }

PriceTables(today) ==
    { [d \in daterange(end - 3, end) |-> [s \in S |-> LotShares(s)]] :
         end \in {e \in EndDays : e <= today}, S \in {{"A"}, Syms} }

InitPrices ==
    /\ now \in NowDays
    /\ orders = <<>>
    /\ pc = "transferred"
    /\ error = ""
    /\ port_hist \in PriceTables(now)
    /\ port_cache = <<>>
    /\ cost_cache = EmptyDict
    /\ stock_costs = EmptyDict
    /\ transfer_hist = <<>>
    /\ price_files \in PriceFilesUpTo(now)
    /\ cash_flow = EmptyDict
    /\ port_value = EmptyDict
    /\ hpr = EmptyDict
    /\ twr = EmptyDict
    /\ PricesUntouched
    /\ OrdersFetched
    /\ ReplayUntraced
    /\ SessionUntraced

SaveStockPrices ==
    /\ pc \in {"transferred", "priced"} /\ error = ""
    /\ runs < MaxRuns
    /\ cache_query = {}
    /\ \E stocks \in KeyOrders(IF DOMAIN port_hist = {} THEN {}
                               ELSE DOMAIN port_hist[Min(DOMAIN port_hist)]) :
          LET r == SaveStockPricesResult(port_hist, price_files, stocks, now)
          IN  /\ price_files' = r.files
              /\ price_requests' = price_requests \o r.requests
              /\ info_log' = info_log \o r.info
              /\ error' = IF r.status = "ok" THEN "" ELSE r.status
              /\ pc' = IF r.status = "ok" THEN "priced" ELSE pc
    /\ runs' = runs + 1
    /\ UNCHANGED <<orders, now, port_hist, port_cache, cost_cache, stock_costs,
                   transfer_hist, cash_flow, port_value, hpr, twr, price_cache,
                   cache_query, ordersVars,
                   replayVars, sessionVars>>

GetStockCache ==
    /\ cache_query = {}
    /\ \E start \in QueryDays, end \in QueryDays :
          /\ price_cache' = get_stock_cache(price_files, start, end)
          /\ cache_query' = {[start |-> start, end |-> end]}
    /\ UNCHANGED <<orders, now, pc, error, port_hist, port_cache, cost_cache,
                   stock_costs, transfer_hist, price_files, cash_flow, port_value,
                   hpr, twr, price_requests, info_log, runs, ordersVars,
                   replayVars, sessionVars>>

NextPrices == SaveStockPrices \/ GetStockCache

SpecPrices == InitPrices /\ [][NextPrices]_vars

----------------------------------------------------------------------------
(* The order-history cache: RobinhoodOrder rows and get_cached_order_history *)

RobinhoodOrder(symbol, action, shares, price, date) ==
    [symbol |-> symbol, action |-> action, shares |-> shares, price |-> price,
     date |-> date]

getCsvHeader == <<"symbol", "action", "shares", "price", "date">>

\* shares and price written in each other's column
getCsvRowPriceFirst(log) ==
    <<log.symbol, log.action, log.price, log.shares, log.date>>

getCsvRow(log) == <<log.symbol, log.action, log.shares, log.price, log.date>>

\* d[headers[i]] = row[i] for i in range(len(row))
RowToDict(headers, row) ==
    [k \in {headers[i] : i \in 1..Len(row)} |->
        row[CHOOSE i \in 1..Len(row) :
               /\ headers[i] = k
               /\ \A j \in 1..Len(row) : headers[j] = k => j <= i]]

getOrderFromDict(d) ==
    RobinhoodOrder(d["symbol"], d["action"], d["shares"], d["price"], d["date"])

\* the rows of one cache file: the first is the header
ReadOrderRows(rows) ==
    [i \in 1..(Len(rows) - 1) |->
        getOrderFromDict(RowToDict(rows[1], rows[i + 1]))]

\* the file read is files[0], the oldest generation
get_cached_order_history_oldest(files) == ReadOrderRows(files[1])

\* files: the cache files in the order of sorted(os.listdir(...)); files[-1] is read
get_cached_order_history(files) == ReadOrderRows(files[Len(files)])

----------------------------------------------------------------------------
(* login, logout and the login_required wrapper *)

LoginRequest == [endpoint |-> "login", page |-> 0, url |-> ""]

LogoutRequest == [endpoint |-> "logout", page |-> 0, url |-> ""]

\* The answer of the brokerage to a login request: an HTTP error status, a
\* body with mfa_required, a body with access_token and refresh_token, a body
\* with neither.
LoginAnswers == {"rejected", "mfa_required", "token", "empty"}

\* login(username, password, device_token); answers are those of the
\* brokerage to the successive requests, auth is headers['Authorization'].
\* On mfa_required the code is asked for and login called again.
RECURSIVE login(_, _, _)
login(answers, auth, requests) ==
    LET sent == Append(requests, LoginRequest)
    IN  IF Head(answers) = "rejected"
        THEN [status |-> "LoginFailed", returned |-> FALSE,
              authorization |-> auth, requests |-> sent]
        ELSE IF Head(answers) = "mfa_required"
        THEN login(Tail(answers), auth, sent)
        ELSE IF Head(answers) = "token"
        THEN [status |-> "ok", returned |-> TRUE,
              authorization |-> "token", requests |-> sent]
        ELSE [status |-> "ok", returned |-> FALSE,
              authorization |-> auth, requests |-> sent]

\* logout: the request is sent, an HTTP error is a warning only, and
\* headers['Authorization'] is set to None, the key staying in the dict
logout(auth, requests) ==
    [authorization |-> "None", requests |-> Append(requests, LogoutRequest)]

\* the wrapper calls the body whatever headers holds
LoginNotRequired(auth) == [auth_method |-> FALSE, status |-> "ok"]

\* The wrapper of login_required: auth_method is called when headers has no
\* 'Authorization' key.  auth_method is login_prompt, whose call of login
\* lacks device_token and raises TypeError before any request is sent.
login_required(auth) ==
    IF auth = "absent" THEN [auth_method |-> TRUE, status |-> "TypeError"]
    ELSE [auth_method |-> FALSE, status |-> "ok"]

\* the instance holds an auth token
HoldsToken(auth) == auth = "token"

\* The record of a call of an operation behind login_required: whether the
\* instance held a token, whether the wrapper called auth_method, whether the
\* body ran, and the path the body took.
WrappedCall(op, auth, path) ==
    [op |-> op, token |-> HoldsToken(auth),
     auth_method |-> login_required(auth).auth_method,
     body |-> login_required(auth).status = "ok",
     path |-> path, url |-> "", symbol |-> ""]

\* the record of a call of an operation without the wrapper
PlainCall(op, auth, url, symbol) ==
    [op |-> op, token |-> HoldsToken(auth), auth_method |-> FALSE,
     body |-> TRUE, path |-> "", url |-> url, symbol |-> symbol]

----------------------------------------------------------------------------
(* full_order_history *)

OrdersRequest(i) == [endpoint |-> "orders", page |-> i, url |-> ""]

InstrumentRequest(instrument_url) ==
    [endpoint |-> "instruments", page |-> 0, url |-> instrument_url]

\* the symbol the brokerage returns for an instrument url
InstrumentSymbol(instrument_url) == symbols[instrument_url]

\* the symbol is asked for on every call and the cache left as it is
instrument_lookup_uncached(instrument_url, cache, requests) ==
    [symbol |-> InstrumentSymbol(instrument_url), cache |-> cache,
     requests |-> Append(requests, InstrumentRequest(instrument_url))]

\* instrument_lookup: one request for a url not in the cache, none otherwise
instrument_lookup(instrument_url, cache, requests) ==
    IF instrument_url \in DOMAIN cache
    THEN [symbol |-> cache[instrument_url], cache |-> cache, requests |-> requests]
    ELSE [symbol |-> InstrumentSymbol(instrument_url),
          cache |-> (instrument_url :> InstrumentSymbol(instrument_url)) @@ cache,
          requests |-> Append(requests, InstrumentRequest(instrument_url))]

\* the cursor is not followed: the page in hand is taken for the last one
FetchFirstPage(chain, i, result, requests) ==
    [result |-> result \o chain[i], requests |-> requests]

\* the while loop over res['next'], res being page i of the chain, and the
\* results of the last page added after it
RECURSIVE FetchPages(_, _, _, _)
FetchPages(chain, i, result, requests) ==
    IF i < Len(chain)
    THEN FetchPages(chain, i + 1, result \o chain[i],
                    Append(requests, OrdersRequest(i + 1)))
    ELSE [result |-> result \o chain[i], requests |-> requests]

\* result[::-1]
RECURSIVE Reverse(_)
Reverse(s) == IF s = <<>> THEN <<>> ELSE Append(Reverse(Tail(s)), Head(s))

\* the event takes the price and timestamp of executions[0]
FirstExecutionOrder(symbol, log) ==
    RobinhoodOrder(symbol, log.side, log.quantity, log.executions[1].price,
                   log.executions[1].timestamp)

\* RobinhoodOrder(symbol, side, quantity, executions[-1] price and timestamp)
LastExecutionOrder(symbol, log) ==
    RobinhoodOrder(symbol, log.side, log.quantity,
                   log.executions[Len(log.executions)].price,
                   log.executions[Len(log.executions)].timestamp)

\* for log in result[::-1]: the lookup of the symbol, then the event of a
\* filled order
RECURSIVE ConvertLoop(_, _, _, _)
ConvertLoop(logs, cache, requests, history) ==
    IF logs = <<>>
    THEN [status |-> "ok", history |-> history, cache |-> cache,
          requests |-> requests]
    ELSE LET log == Head(logs)
             l == instrument_lookup(log.instrument, cache, requests)
         IN  IF log.state # "filled"
             THEN ConvertLoop(Tail(logs), l.cache, l.requests, history)
             ELSE IF log.executions = <<>>
             THEN [status |-> "IndexError", history |-> history,
                   cache |-> l.cache, requests |-> l.requests]
             ELSE ConvertLoop(Tail(logs), l.cache, l.requests,
                              Append(history, LastExecutionOrder(l.symbol, log)))

\* a generation is written whatever the history
WriteGenerationAlways(cache, history) ==
    [exists |-> TRUE,
     files |-> Append(cache.files,
                      <<getCsvHeader>> \o [i \in 1..Len(history) |->
                                              getCsvRow(history[i])])]

\* if len(history) > 0: the directory is made when missing and a file named
\* after datetime.now(), the last in name order, gets the header and the rows
WriteGeneration(cache, history) ==
    IF Len(history) > 0
    THEN [exists |-> TRUE,
          files |-> Append(cache.files,
                           <<getCsvHeader>> \o [i \in 1..Len(history) |->
                                                   getCsvRow(history[i])])]
    ELSE cache

\* full_order_history(use_cache) behind login_required; auth is
\* headers['Authorization'], chain the pages the brokerage serves
FullOrderHistoryResult(use, auth, cache, chain, icache, requests) ==
    IF login_required(auth).status # "ok"
    THEN [status |-> login_required(auth).status, path |-> "",
          history |-> <<>>, result |-> <<>>, order_cache |-> cache,
          instrument_cache |-> icache, requests |-> requests]
    ELSE IF use /\ cache.exists /\ Len(cache.files) > 0
    THEN [status |-> "ok", path |-> "cache",
          history |-> get_cached_order_history(cache.files),
          result |-> <<>>, order_cache |-> cache, instrument_cache |-> icache,
          requests |-> requests]
    ELSE IF ~HoldsToken(auth)
    THEN \* the request goes out without a token; the body of the answer has
         \* no 'next' and res['next'] raises KeyError
         [status |-> "KeyError", path |-> "fetch", history |-> <<>>,
          result |-> <<>>, order_cache |-> cache, instrument_cache |-> icache,
          requests |-> Append(requests, OrdersRequest(1))]
    ELSE LET f == FetchPages(chain, 1, <<>>, Append(requests, OrdersRequest(1)))
             c == ConvertLoop(Reverse(f.result), icache, f.requests, <<>>)
         IN  [status |-> c.status, path |-> "fetch", history |-> c.history,
              result |-> f.result,
              order_cache |-> IF c.status = "ok"
                              THEN WriteGeneration(cache, c.history) ELSE cache,
              instrument_cache |-> c.cache, requests |-> c.requests]

----------------------------------------------------------------------------
(* full_order_history on pages and cache directories drawn from bounded sets *)

\* the order records of the brokerage: a filled buy of A with two executions,
\* a cancelled sale of B and a filled sale of B
RawLogs ==
    { [instrument |-> "instruments/A", state |-> "filled", side |-> "buy",
       quantity |-> LotShares("A"),
       executions |-> <<[price |-> LotPrice("A") - 1,
                         timestamp |-> [day |-> 0, tick |-> 0]],
                        [price |-> LotPrice("A"),
                         timestamp |-> [day |-> 0, tick |-> 1]]>>],
      [instrument |-> "instruments/B", state |-> "cancelled", side |-> "sell",
       quantity |-> LotShares("B"), executions |-> <<>>],
      [instrument |-> "instruments/B", state |-> "filled", side |-> "sell",
       quantity |-> LotShares("B"),
       executions |-> <<[price |-> LotPrice("B"),
                         timestamp |-> [day |-> 3, tick |-> 0]]>>] }

\* the numbers of records a page may hold
PageSizes == {0, 1, 2}

Pages == UNION {[1..n -> RawLogs] : n \in PageSizes}

\* a chain of one page or more
PageChains == SeqsUpTo(Pages, MaxPages) \ {<<>>}

\* the generations written by earlier runs
OlderGeneration ==
    <<getCsvHeader,
      getCsvRow(RobinhoodOrder("A", "buy", LotShares("A"), LotPrice("A"),
                               [day |-> 0, tick |-> 0]))>>

NewerGeneration ==
    <<getCsvHeader,
      getCsvRow(RobinhoodOrder("B", "buy", LotShares("B"), LotPrice("B"),
                               [day |-> 0, tick |-> 1])),
      getCsvRow(RobinhoodOrder("B", "sell", LotShares("B"), LotPrice("B"),
                               [day |-> 3, tick |-> 1]))>>

\* .rh_cache/order_history: missing, empty, or holding one or two generations
OrderCaches ==
    { [exists |-> FALSE, files |-> <<>>],
      [exists |-> TRUE, files |-> <<>>],
      [exists |-> TRUE, files |-> <<OlderGeneration>>],
      [exists |-> TRUE, files |-> <<OlderGeneration, NewerGeneration>>],
      [exists |-> TRUE, files |-> <<NewerGeneration, OlderGeneration>>] }

InitOrders ==
    /\ now = MaxDay
    /\ orders = <<>>
    /\ pc = "started"
    /\ error = ""
    /\ port_hist = EmptyDict
    /\ port_cache = <<>>
    /\ cost_cache = EmptyDict
    /\ stock_costs = EmptyDict
    /\ transfer_hist = <<>>
    /\ price_files = EmptyDict
    /\ cash_flow = EmptyDict
    /\ port_value = EmptyDict
    /\ hpr = EmptyDict
    /\ twr = EmptyDict
    /\ PricesUntouched
    /\ authorization \in {"absent", "token"}
    /\ order_cache \in OrderCaches
    /\ pages \in PageChains
    /\ net_requests = <<>>
    /\ instrument_cache = EmptyDict
    /\ use_cache = FALSE
    /\ fetched = <<>>
    /\ ReplayUntraced
    /\ SessionUntraced

FullOrderHistory ==
    /\ pc \in {"started", "session"} /\ error = ""
    /\ Len(op_log) < MaxCalls
    /\ \E use \in BOOLEAN :
          LET r == FullOrderHistoryResult(use, authorization, order_cache, pages,
                                          instrument_cache, net_requests)
          IN  /\ use_cache' = use
              /\ orders' = r.history
              /\ fetched' = r.result
              /\ order_cache' = r.order_cache
              /\ instrument_cache' = r.instrument_cache
              /\ net_requests' = r.requests
              /\ error' = IF r.status = "ok" THEN "" ELSE r.status
              /\ pc' = IF r.status = "ok" /\ pc = "started" THEN "fetched" ELSE pc
              /\ op_log' = Append(op_log, WrappedCall("full_order_history",
                                                      authorization, r.path))
    /\ UNCHANGED <<now, port_hist, port_cache, cost_cache, stock_costs,
                   transfer_hist, price_files, cash_flow, port_value, hpr, twr,
                   pricesVars, authorization, pages, replayVars, symbols,
                   ach_pages>>

NextOrders == FullOrderHistory

SpecOrders == InitOrders /\ [][NextOrders]_vars

----------------------------------------------------------------------------
(* get_transfers, get_all_transfers and order_history *)

TransfersRequest(i) == [endpoint |-> "ach/transfers", page |-> i, url |-> ""]

\* the entry get_all_transfers keeps of a transfer: the day of created_at,
\* the amount and the direction
TransferEntry(log) ==
    [date |-> log.created_at.day, amount |-> log.amount, type |-> log.direction]

\* the while loop over res['next'], page i being the next to ask for
RECURSIVE TransferPages(_, _, _, _)
TransferPages(chain, i, result, requests) ==
    IF i > Len(chain) THEN [result |-> result, requests |-> requests]
    ELSE TransferPages(chain, i + 1,
                       result \o [k \in 1..Len(chain[i]) |->
                                     TransferEntry(chain[i][k])],
                       Append(requests, TransfersRequest(i)))

\* get_all_transfers behind login_required
get_all_transfers(auth, chain, requests) ==
    IF login_required(auth).status # "ok"
    THEN [status |-> login_required(auth).status, result |-> <<>>,
          requests |-> requests]
    ELSE IF ~HoldsToken(auth)
    THEN \* the body of the answer has no 'results'
         [status |-> "KeyError", result |-> <<>>,
          requests |-> Append(requests, TransfersRequest(1))]
    ELSE LET r == TransferPages(chain, 1, <<>>, requests)
         IN  [status |-> "ok", result |-> r.result, requests |-> r.requests]

\* get_transfers behind login_required: one request, raise_for_status
get_transfers(auth, chain, requests) ==
    IF login_required(auth).status # "ok"
    THEN [status |-> login_required(auth).status, requests |-> requests]
    ELSE [status |-> IF HoldsToken(auth) THEN "ok" ELSE "HTTPError",
          requests |-> Append(requests, TransfersRequest(1))]

\* order_history behind login_required: one request, the body returned as is
order_history(auth, chain, requests) ==
    IF login_required(auth).status # "ok"
    THEN [status |-> login_required(auth).status, requests |-> requests]
    ELSE [status |-> "ok", requests |-> Append(requests, OrdersRequest(1))]

----------------------------------------------------------------------------
(* One instance used call by call: login, logout, the operations behind     *)
(* login_required and instrument_lookup, in any order                       *)

\* the answers to the requests of one call of login
LoginAnswerSeqs ==
    LET last == LoginAnswers \ {"mfa_required"}
    IN  {<<a>> : a \in last} \cup {<<"mfa_required", a>> : a \in last}

\* the transfers of the brokerage
RawTransfers ==
    { [created_at |-> [day |-> d, tick |-> 0], amount |-> 50, direction |-> t] :
         d \in {0, MaxDay}, t \in {"deposit", "withdraw"} }

\* the transfers in one page, or in one page followed by an empty one
TransferChains ==
    {<<q>> : q \in SeqsUpTo(RawTransfers, MaxTransfers)}
        \cup {<<q, <<>>>> : q \in SeqsUpTo(RawTransfers, MaxTransfers)}

\* one page of two different order records
SessionChains ==
    {c \in PageChains : Len(c) = 1 /\ Len(c[1]) = 2 /\ c[1][1] # c[1][2]}

\* two pages, the first with one transfer of day 0
SessionTransferChains ==
    {c \in TransferChains :
        Len(c) = 2 /\ Len(c[1]) = 1 /\ c[1][1].created_at.day = 0}

\* the listing after the brokerage has renamed the instruments
RenamedSymbols ==
    [u \in InstrumentUrls |-> IF ListedSymbols[u] = "A" THEN "B" ELSE "A"]

InitSession ==
    /\ now = MaxDay
    /\ orders = <<>>
    /\ pc = "session"
    /\ error = ""
    /\ port_hist = EmptyDict
    /\ port_cache = <<>>
    /\ cost_cache = EmptyDict
    /\ stock_costs = EmptyDict
    /\ transfer_hist = <<>>
    /\ price_files = EmptyDict
    /\ cash_flow = EmptyDict
    /\ port_value = EmptyDict
    /\ hpr = EmptyDict
    /\ twr = EmptyDict
    /\ PricesUntouched
    /\ ReplayUntraced
    /\ authorization = "absent"
    /\ order_cache \in OrderCaches
    /\ pages \in SessionChains
    /\ net_requests = <<>>
    /\ instrument_cache = EmptyDict
    /\ use_cache = FALSE
    /\ fetched = <<>>
    /\ op_log = <<>>
    /\ symbols = ListedSymbols
    /\ ach_pages \in SessionTransferChains

Login ==
    /\ pc \in {"constructed", "session"} /\ error = ""
    /\ Len(op_log) < MaxCalls
    /\ \E answers \in LoginAnswerSeqs :
          LET r == login(answers, authorization, net_requests)
          IN  /\ authorization' = r.authorization
              /\ net_requests' = r.requests
              /\ error' = IF r.status = "ok" THEN "" ELSE r.status
              /\ pc' = IF r.status = "ok" /\ pc = "constructed" THEN "started"
                       ELSE pc
    /\ op_log' = Append(op_log, PlainCall("login", authorization, "", ""))
    /\ UNCHANGED <<orders, now, port_hist, port_cache, cost_cache, stock_costs,
                   transfer_hist, price_files, cash_flow, port_value, hpr, twr,
                   pricesVars, order_cache, pages, instrument_cache, use_cache,
                   fetched, replayVars, symbols, ach_pages>>

Logout ==
    /\ pc = "session" /\ error = ""
    /\ Len(op_log) < MaxCalls
    /\ authorization' = logout(authorization, net_requests).authorization
    /\ net_requests' = logout(authorization, net_requests).requests
    /\ op_log' = Append(op_log, PlainCall("logout", authorization, "", ""))
    /\ UNCHANGED <<orders, now, pc, error, port_hist, port_cache, cost_cache,
                   stock_costs, transfer_hist, price_files, cash_flow, port_value,
                   hpr, twr, pricesVars, order_cache, pages, instrument_cache,
                   use_cache, fetched, replayVars, symbols, ach_pages>>

GetAllTransfers ==
    /\ pc \in {"costed", "session"} /\ error = ""
    /\ Len(op_log) < MaxCalls
    /\ LET r == get_all_transfers(authorization, ach_pages, net_requests)
       IN  /\ transfer_hist' = IF r.status = "ok" THEN r.result ELSE transfer_hist
           /\ net_requests' = r.requests
           /\ error' = IF r.status = "ok" THEN "" ELSE r.status
           /\ pc' = IF r.status = "ok" /\ pc = "costed" THEN "transferred" ELSE pc
    /\ op_log' = Append(op_log, WrappedCall("get_all_transfers", authorization, ""))
    /\ UNCHANGED <<orders, now, port_hist, port_cache, cost_cache, stock_costs,
                   price_files, cash_flow, port_value, hpr, twr, pricesVars,
                   authorization, order_cache, pages, instrument_cache, use_cache,
                   fetched, replayVars, symbols, ach_pages>>

GetTransfers ==
    /\ pc = "session" /\ error = ""
    /\ Len(op_log) < MaxCalls
    /\ LET r == get_transfers(authorization, ach_pages, net_requests)
       IN  /\ net_requests' = r.requests
           /\ error' = IF r.status = "ok" THEN "" ELSE r.status
    /\ op_log' = Append(op_log, WrappedCall("get_transfers", authorization, ""))
    /\ UNCHANGED <<orders, now, pc, port_hist, port_cache, cost_cache, stock_costs,
                   transfer_hist, price_files, cash_flow, port_value, hpr, twr,
                   pricesVars, authorization, order_cache, pages,
                   instrument_cache, use_cache, fetched, replayVars, symbols,
                   ach_pages>>

OrderHistory ==
    /\ pc = "session" /\ error = ""
    /\ Len(op_log) < MaxCalls
    /\ LET r == order_history(authorization, pages, net_requests)
       IN  /\ net_requests' = r.requests
           /\ error' = IF r.status = "ok" THEN "" ELSE r.status
    /\ op_log' = Append(op_log, WrappedCall("order_history", authorization, ""))
    /\ UNCHANGED <<orders, now, pc, port_hist, port_cache, cost_cache, stock_costs,
                   transfer_hist, price_files, cash_flow, port_value, hpr, twr,
                   pricesVars, authorization, order_cache, pages,
                   instrument_cache, use_cache, fetched, replayVars, symbols,
                   ach_pages>>

InstrumentLookup ==
    /\ pc = "session" /\ error = ""
    /\ Len(op_log) < MaxCalls
    /\ \E instrument_url \in InstrumentUrls :
          LET r == instrument_lookup(instrument_url, instrument_cache,
                                     net_requests)
          IN  /\ instrument_cache' = r.cache
              /\ net_requests' = r.requests
              /\ op_log' = Append(op_log,
                                  PlainCall("instrument_lookup", authorization,
                                            instrument_url, r.symbol))
    /\ UNCHANGED <<orders, now, pc, error, port_hist, port_cache, cost_cache,
                   stock_costs, transfer_hist, price_files, cash_flow, port_value,
                   hpr, twr, pricesVars, authorization, order_cache, pages,
                   use_cache, fetched, replayVars, symbols, ach_pages>>

\* the brokerage lists the instruments under other symbols
Rename ==
    /\ pc = "session" /\ error = ""
    /\ symbols = ListedSymbols
    /\ symbols' = RenamedSymbols
    /\ UNCHANGED <<orders, now, pc, error, port_hist, port_cache, cost_cache,
                   stock_costs, transfer_hist, price_files, cash_flow, port_value,
                   hpr, twr, pricesVars, ordersVars, replayVars, op_log,
                   ach_pages>>

NextSession ==
    \/ Login
    \/ Logout
    \/ FullOrderHistory
    \/ GetAllTransfers
    \/ GetTransfers
    \/ OrderHistory
    \/ InstrumentLookup
    \/ Rename

SpecSession == InitSession /\ [][NextSession]_vars

----------------------------------------------------------------------------
(* The run of gen_port_anal up to the price files: login,                   *)
(* full_order_history, portfolio_history, get_stock_costs,                  *)
(* get_all_transfers and save_stock_prices on one instance                  *)

\* the orders of the brokerage in one page
RunChains == {c \in PageChains : Len(c) = 1}

InitRun ==
    /\ now = MaxDay
    /\ orders = <<>>
    /\ pc = "constructed"
    /\ error = ""
    /\ port_hist = EmptyDict
    /\ port_cache = <<>>
    /\ cost_cache = EmptyDict
    /\ stock_costs = EmptyDict
    /\ transfer_hist = <<>>
    /\ price_files = EmptyDict
    /\ cash_flow = EmptyDict
    /\ port_value = EmptyDict
    /\ hpr = EmptyDict
    /\ twr = EmptyDict
    /\ PricesUntouched
    /\ ReplayUntraced
    /\ authorization = "absent"
    /\ order_cache \in OrderCaches
    /\ pages \in RunChains
    /\ net_requests = <<>>
    /\ instrument_cache = EmptyDict
    /\ use_cache = FALSE
    /\ fetched = <<>>
    /\ op_log = <<>>
    /\ symbols = ListedSymbols
    /\ ach_pages \in TransferChains

NextRun ==
    \/ Login
    \/ FullOrderHistory
    \/ PortfolioHistory
    \/ GetStockCosts
    \/ GetAllTransfers
    \/ SaveStockPrices

SpecRun == InitRun /\ [][NextRun]_vars

----------------------------------------------------------------------------
(* get_stock_costs and time_weighted_returns, each on its inputs: an order  *)
(* history and the table portfolio_history builds from it, or a holdings    *)
(* table with costs, transfers and price files                              *)

InitBooks == Init \/ InitTWR

NextBooks == PortfolioHistory \/ GetStockCosts \/ TimeWeightedReturns

SpecBooks == InitBooks /\ [][NextBooks]_vars

----------------------------------------------------------------------------
(* Properties of portfolio_history and get_stock_costs *)

OrderIdx == 1..Len(orders)

OrderSymbols == {orders[i].symbol : i \in OrderIdx}

FirstTradeDay == Min({orders[i].date.day : i \in OrderIdx})

\* shares of symbol s bought minus shares sold, over the orders dated on or before D
SignedShares(s, D) ==
    LET I == {i \in OrderIdx : orders[i].symbol = s /\ orders[i].date.day <= D}
    IN  SumOn([i \in I |-> IF orders[i].action = "buy" THEN orders[i].shares
                           ELSE 0 - orders[i].shares], I)

\* price*shares of the orders of one side dated on or before D
Traded(side, D) ==
    LET I == {i \in OrderIdx : orders[i].action = side /\ orders[i].date.day <= D}
    IN  SumOn([i \in I |-> orders[i].price * orders[i].shares], I)

\* the first date of the holdings table on or after day, as a set
FirstTableDate(day) ==
    LET later == {k \in DOMAIN port_hist : k >= day}
    IN  IF later = {} THEN {} ELSE {Min(later)}

\* the signed costs of the orders of symbol s whose first table date is d
BookedAt(s, d) ==
    LET I == {i \in OrderIdx : orders[i].symbol = s
                               /\ FirstTableDate(orders[i].date.day) = {d}}
    IN  SumOn([i \in I |-> IF orders[i].action = "buy"
                           THEN 0 - orders[i].price * orders[i].shares
                           ELSE orders[i].price * orders[i].shares], I)

\* C1: in the table returned by portfolio_history the holding of every symbol
\* on every date D is the signed sum of the orders of that symbol dated on or
\* before D, weekend trades before D included.
HoldingsAreSignedSums ==
    (pc # "fetched" /\ orders # <<>>) =>
        \A D \in DOMAIN port_hist : \A s \in OrderSymbols :
            /\ s \in DOMAIN port_hist[D]
            /\ port_hist[D][s] = SignedShares(s, D)

\* C2: for a non-empty order history portfolio_history completes and the keys
\* of its table are exactly the weekdays from the first trade date to today.
HistoryCoversWeekdays ==
    ((pc # "fetched" \/ error # "") /\ orders # <<>>) =>
        /\ pc # "fetched"
        /\ DOMAIN port_hist = {d \in FirstTradeDay..now : Weekday(d) < 5}

\* C3: on every date D of the table returned by get_stock_costs the cumulative
\* costs of all symbols sum to the sells minus the buys dated on or before D.
CostsSumToNetCash ==
    pc = "costed" =>
        /\ DOMAIN stock_costs = DOMAIN port_hist
        /\ \A D \in DOMAIN stock_costs :
               SumOn(stock_costs[D], DOMAIN stock_costs[D])
                   = Traded("sell", D) - Traded("buy", D)

\* a returned cost table with buys and sells, a weekend trade and a date
\* whose costs do not cancel
CostsSumWitness ==
    /\ pc = "costed"
    /\ \E i, j \in OrderIdx : orders[i].action = "buy" /\ orders[j].action = "sell"
    /\ \E i \in OrderIdx : Weekday(orders[i].date.day) >= 5
    /\ \E D \in DOMAIN stock_costs : sum_dict(stock_costs[D]) > 0

\* C4: get_stock_costs books the signed cost of every order exactly once, on
\* its own symbol, in the bucket of the first table date on or after its date.
CostBookedOnFirstTableDate ==
    pc = "costed" =>
        /\ DOMAIN cost_cache = DOMAIN port_hist
        /\ \A d \in DOMAIN cost_cache : \A s \in DOMAIN cost_cache[d] :
               cost_cache[d][s] = BookedAt(s, d)

\* an order dated on a day absent from the table, booked on a later date
CostBookedWitness ==
    /\ pc = "costed"
    /\ \E i \in OrderIdx :
          /\ orders[i].date.day \notin DOMAIN cost_cache
          /\ \E d \in DOMAIN cost_cache :
                /\ d > orders[i].date.day
                /\ cost_cache[d][orders[i].symbol] # 0

\* C28: get_stock_costs ends for every order history and the holdings table
\* portfolio_history builds from it: the roll-forward of each trade stops at
\* a date of the table, also for a trade dated on a weekend after the
\* table's last weekday; it never runs off the end of the calendar.
TradeRollForwardEnds ==
    /\ error # "OverflowError"
    /\ pc = "costed" =>
          \A i \in 1..Len(orders) :
              \E d \in DOMAIN port_hist : d >= getDate(orders[i])

----------------------------------------------------------------------------
(* Properties of the replay loop of portfolio_history *)

\* the date of the trade the replay loop takes next
TradeDate == getDate(Head(pending))

\* C25: the snapshot stored for a trade date is a record of its own: a trade
\* changes no snapshot but that of its own date, so the trades of a later
\* date leave the snapshot of an earlier date as it was.
SnapshotsAreSeparate ==
    [][pending # <<>> /\ pending' = Tail(pending) =>
          \A d \in DOMAIN replay.snapshots :
              /\ d \in DOMAIN replay'.snapshots
              /\ d # TradeDate => replay'.snapshots[d] = replay.snapshots[d]]_vars

\* two trade dates replayed, the later trade applied and the snapshot of the
\* earlier date without it
SnapshotsWitness ==
    /\ pending = <<>>
    /\ Len(orders) = 2
    /\ \E d1, d2 \in DOMAIN replay.snapshots :
          /\ d1 < d2
          /\ replay.snapshots[d1] # replay.snapshots[d2]
          /\ DOMAIN replay.snapshots[d1] # {}

----------------------------------------------------------------------------
(* portfolio_history on an empty order history *)

\* the built-in exceptions a statement raises by accident
IncidentalFaults ==
    {"IndexError", "KeyError", "TypeError", "ValueError", "OverflowError",
     "ZeroDivisionError"}

\* C12: on an empty order history portfolio_history stops with a dedicated
\* empty-input error, returns no holdings table and writes no cache file.
EmptyHistoryRejected ==
    (orders = <<>> /\ pc = "fetched" /\ error # "") =>
        /\ error \notin IncidentalFaults
        /\ port_hist = EmptyDict
        /\ port_cache = <<>>

----------------------------------------------------------------------------
(* Properties of time_weighted_returns *)

TransferIdx == 1..Len(transfer_hist)

\* the close of the row of date d in the price file of s, 0 without such a row
PriceAt(s, d) ==
    IF s \in DOMAIN price_files
       /\ \E i \in 1..Len(price_files[s]) : price_files[s][i].date = d
    THEN price_files[s][CHOOSE i \in 1..Len(price_files[s]) :
                            price_files[s][i].date = d].close
    ELSE 0

\* stock_value(d): shares * price over the symbols of the holdings table
StockValueOn(d) ==
    SumOn([s \in DOMAIN port_hist[d] |-> port_hist[d][s] * PriceAt(s, d)],
          DOMAIN port_hist[d])

\* the tracked dates: the table dates whose stock value is not 0
Tracked == {d \in DOMAIN port_hist : StockValueOn(d) # 0}

\* the first tracked date on or after day, as a set
FirstTracked(day) ==
    LET later == {k \in Tracked : k >= day}
    IN  IF later = {} THEN {} ELSE {Min(later)}

TransferAmount(i) ==
    IF transfer_hist[i].type = "deposit" THEN transfer_hist[i].amount
    ELSE 0 - transfer_hist[i].amount

\* cashflow(d): the transfers whose first tracked date is d
CashFlowOn(d) ==
    LET I == {i \in TransferIdx : FirstTracked(transfer_hist[i].date) = {d}}
    IN  SumOn([i \in I |-> TransferAmount(i)], I)

\* cumulative_cash(d): the cash flows of the tracked dates up to d
CumCashOn(d) ==
    LET K == {k \in Tracked : k <= d}
    IN  SumOn([k \in K |-> CashFlowOn(k)], K)

\* V(d) = stock_value(d) + cumulative_cash(d) + sum of cost_basis(d)
ValueOn(d) ==
    StockValueOn(d) + CumCashOn(d)
        + SumOn(stock_costs[d], DOMAIN stock_costs[d])

PrevTracked(d) == Max({k \in Tracked : k < d})

\* hpr of the pair (PrevTracked(cur), cur); <<0, 0>> when it has no value
HprOn(cur) ==
    LET base == ValueOn(PrevTracked(cur)) + CashFlowOn(cur)
    IN  IF base = 0 THEN <<0, 0>> ELSE Frac(ValueOn(cur) - base, base)

\* the product of (1 + hpr) over the pairs up to cur
RECURSIVE GrowthUpTo(_)
GrowthUpTo(cur) ==
    IF cur = Min(Tracked) THEN <<1, 1>>
    ELSE LET h == HprOn(cur)
             g == GrowthUpTo(PrevTracked(cur))
         IN  IF h[2] = 0 \/ g[2] = 0 THEN <<0, 0>>
             ELSE FracMul(g, Frac(h[1] + h[2], h[2]))

\* C5: one return for every tracked date except the first and for no other
\* date, hpr and TWR being the chained returns of the adjusted values V.
ReturnsAreChainedHpr ==
    pc = "done" =>
        /\ DOMAIN twr = IF Tracked = {} THEN {} ELSE Tracked \ {Min(Tracked)}
        /\ DOMAIN hpr = DOMAIN twr
        /\ \A cur \in DOMAIN twr :
              /\ hpr[cur] = HprOn(cur)
              /\ LET g == GrowthUpTo(cur)
                 IN  g[2] # 0 /\ twr[cur] = Frac((g[1] - g[2]) * 100, g[2])

\* two returns or more, one of them on a date with a cash flow and a cost basis
ReturnsWitness ==
    /\ pc = "done"
    /\ Cardinality(DOMAIN twr) >= 2
    /\ \E cur \in DOMAIN twr :
          /\ cash_flow[cur] # 0
          /\ twr[cur] # <<0, 1>>
          /\ sum_dict(stock_costs[cur]) # 0

TwrRan == pc = "done" \/ error # ""

\* holdings of 10 shares of A on two dates, closes 10 and 11, a cost basis of 0
TwoDayScenario ==
    /\ Cardinality(DOMAIN port_hist) = 2
    /\ \A d \in DOMAIN port_hist :
          /\ port_hist[d] = [s \in {"A"} |-> 10]
          /\ stock_costs[d] = [s \in {"A"} |-> 0]
    /\ PriceAt("A", Min(DOMAIN port_hist)) = 10
    /\ PriceAt("A", Max(DOMAIN port_hist)) = 11

\* C6: the scenario without transfers yields hpr = 1/10 and TWR = 10 on
\* day2 and no entry for day1.
ScenarioNoTransfer ==
    (TwrRan /\ TwoDayScenario /\ transfer_hist = <<>>) =>
        LET day2 == Max(DOMAIN port_hist)
        IN  /\ pc = "done"
            /\ port_value = (Min(DOMAIN port_hist) :> 100) @@ (day2 :> 110)
            /\ hpr = (day2 :> <<1, 10>>)
            /\ twr = (day2 :> <<10, 1>>)

ScenarioNoTransferWitness ==
    pc = "done" /\ TwoDayScenario /\ transfer_hist = <<>>

\* C7: the scenario with one deposit of 50 on day2 yields cashflow(day2) = 50,
\* V(day2) = 160, hpr = 1/15 and a TWR that rounds to 6.67.
ScenarioDeposit ==
    LET day2 == Max(DOMAIN port_hist)
    IN  (/\ TwrRan /\ TwoDayScenario
         /\ transfer_hist = <<[date |-> day2, amount |-> 50, type |-> "deposit"]>>)
        =>
            /\ pc = "done"
            /\ cash_flow[day2] = 50
            /\ port_value[day2] = 160
            /\ hpr = (day2 :> <<1, 15>>)
            /\ DOMAIN twr = {day2}
            /\ 6665 * twr[day2][2] <= 1000 * twr[day2][1]
            /\ 1000 * twr[day2][1] < 6675 * twr[day2][2]

ScenarioDepositWitness ==
    /\ pc = "done" /\ TwoDayScenario
    /\ transfer_hist = <<[date |-> Max(DOMAIN port_hist), amount |-> 50,
                          type |-> "deposit"]>>

\* C8: every transfer changes exactly one cash-flow bucket, the one of the
\* first tracked date on or after its date, by +amount or -amount.
TransferBookedOnFirstTracked ==
    (pc = "done" \/ error = "ZeroDivisionError") =>
        /\ DOMAIN cash_flow = Tracked
        /\ \A i \in TransferIdx : FirstTracked(transfer_hist[i].date) # {}
        /\ \A d \in Tracked : cash_flow[d] = CashFlowOn(d)

\* a transfer dated on a weekend, booked on a later tracked date
TransferBookedWitness ==
    /\ pc = "done"
    /\ \E i \in TransferIdx :
          /\ Weekday(transfer_hist[i].date) >= 5
          /\ \E d \in Tracked : d > transfer_hist[i].date /\ cash_flow[d] # 0

\* C9: a zero V(prev) + cashflow(cur) is handled explicitly and never faults
\* inside the division.
ZeroDenominatorHandled == error # "ZeroDivisionError"

ZeroValueDates == {d \in DOMAIN port_hist : StockValueOn(d) = 0}

TransfersDated(d) == {i \in TransferIdx : transfer_hist[i].date = d}

\* C10 as stated: a date whose stock value is 0 is left out of the value
\* series and gets no return, and its cash-flow bucket is present and takes
\* the transfers dated on that date.
ZeroValueDateKeepsBucket ==
    (pc = "done" \/ error = "ZeroDivisionError") =>
        \A d \in ZeroValueDates :
            /\ d \notin DOMAIN port_value
            /\ d \notin DOMAIN twr
            /\ d \in DOMAIN cash_flow
            /\ cash_flow[d] = SumOn([i \in TransfersDated(d) |-> TransferAmount(i)],
                                    TransfersDated(d))

\* C10 (amended): a date whose stock value is 0 is left out of the value
\* series, gets no return and gets no cash-flow bucket; a transfer dated on
\* it is booked on the bucket of the next tracked date.
ZeroValueDateHasNoBucket ==
    (pc = "done" \/ error = "ZeroDivisionError") =>
        \A d \in ZeroValueDates :
            /\ d \notin DOMAIN port_value
            /\ d \notin DOMAIN twr
            /\ d \notin DOMAIN cash_flow
            /\ \A i \in TransfersDated(d) :
                  \E k \in DOMAIN cash_flow :
                      /\ k > d
                      /\ \A j \in DOMAIN cash_flow : j > d => k <= j
                      /\ cash_flow[k] = CashFlowOn(k)
                      /\ FirstTracked(d) = {k}

\* a transfer dated on a table date of stock value 0, booked on a later date
ZeroValueDateWitness ==
    /\ pc = "done"
    /\ \E d \in ZeroValueDates : \E i \in TransfersDated(d) :
          \E k \in DOMAIN cash_flow : k > d /\ cash_flow[k] = TransferAmount(i)


\* C27: time_weighted_returns ends for every transfer history: the
\* roll-forward of each transfer stops at a tracked date, also for a
\* transfer dated after the last tracked date; it never runs off the end of
\* the calendar.
TransferRollForwardEnds ==
    /\ error # "OverflowError"
    /\ pc = "returned" =>
          \A i \in 1..Len(transfer_hist) :
              \E d \in DOMAIN cash_flow : d >= transfer_hist[i].date

----------------------------------------------------------------------------
(* Properties of time_weighted_returns on two symbols *)

\* the symbols held on d whose price file has a row of date d
PricedOn(d) ==
    {s \in DOMAIN port_hist[d] :
        /\ s \in DOMAIN price_files
        /\ \E i \in 1..Len(price_files[s]) : price_files[s][i].date = d}

\* shares * price over the priced symbols only
PricedValueOn(d) ==
    SumOn([s \in PricedOn(d) |-> port_hist[d][s] * PriceAt(s, d)], PricedOn(d))

\* the exceptions of a failed lookup or conversion of a price
LookupFaults == {"KeyError", "TypeError", "ValueError"}

\* C11: a symbol without a cached price on a date (the date or the symbol
\* missing from the price cache) contributes 0 to the stock value of the date
\* and raises no lookup error; the other symbols still contribute
\* shares * price (the zero denominator of C9 is the one fault of these runs).
MissingPriceContributesZero ==
    TwrRan =>
        /\ error \notin LookupFaults
        /\ \A d \in DOMAIN port_hist :
              IF PricedValueOn(d) = 0 THEN d \notin DOMAIN port_value
              ELSE /\ d \in DOMAIN port_value
                   /\ port_value[d] = PricedValueOn(d) + CumCashOn(d)
                                         + sum_dict(stock_costs[d])

\* a date on which one held symbol has a price and the other has none, the
\* value of the date being shares * price of the priced one
MissingPriceWitness ==
    /\ pc = "done"
    /\ \E d \in DOMAIN port_value :
          /\ Cardinality(PricedOn(d)) = 1
          /\ Cardinality(DOMAIN port_hist[d]) = 2
          /\ sum_dict(stock_costs[d]) = 0
          /\ \E s \in PricedOn(d) : port_value[d] = port_hist[d][s] * PriceAt(s, d)

----------------------------------------------------------------------------
(* Properties of save_stock_prices and get_stock_cache *)

\* the symbols save_stock_prices looks at and its target end date
PricedStocks ==
    IF DOMAIN port_hist = {} THEN {} ELSE DOMAIN port_hist[Min(DOMAIN port_hist)]

EndDate == Max(DOMAIN port_hist)

LastCached(s) == price_files[s][Len(price_files[s])].date

\* the price file of s ends on or after the target end date
Complete(s) ==
    /\ s \in DOMAIN price_files
    /\ price_files[s] # <<>>
    /\ LastCached(s) >= EndDate

SaveStep == runs' = runs + 1

\* C13: when the price file of every symbol is complete, save_stock_prices
\* sends no request to the provider and leaves every price file unchanged, so
\* that get_stock_cache returns the same data before and after the run.
CompleteCacheIsLeftAlone ==
    [][(SaveStep /\ \A s \in PricedStocks : Complete(s)) =>
          /\ price_requests' = price_requests
          /\ price_files' = price_files
          /\ \A start \in QueryDays, end \in QueryDays :
                get_stock_cache(price_files', start, end)
                   = get_stock_cache(price_files, start, end)]_vars

\* the keyword of the time elapsed from ld to ed
ElapsedRange(ld, ed) ==
    IF ed >= AddMonths(ld, 24) THEN "max"
    ELSE IF ed >= AddMonths(ld, 12) THEN "2y"
    ELSE IF ed > AddMonths(ld, 6) THEN "1y"
    ELSE IF ed > AddMonths(ld, 3) THEN "6m"
    ELSE IF ed > AddMonths(ld, 1) THEN "3m"
    ELSE IF ed - ld > 5 THEN "1m"
    ELSE "5d"

\* C14: the range keyword of an update is that of the time elapsed between
\* the last cached date and the end date: two years or more max, one to two
\* years 2y, more than six months 1y, more than three months 6m, more than one
\* month 3m, more than five days 1m, else 5d (31 December to the first days
\* of January of the next year: 5d).
RangeFollowsElapsedTime ==
    \A i \in 1..Len(info_log) :
        info_log[i].range = ElapsedRange(info_log[i].last_date, info_log[i].end_date)

\* C15: an update of a price file is append-only: every row the file had is
\* still there, unchanged and at the same position, and every added row is
\* dated strictly after the last cached date.
UpdateIsAppendOnly ==
    [][SaveStep =>
          \A s \in DOMAIN price_files :
              /\ s \in DOMAIN price_files'
              /\ Len(price_files'[s]) >= Len(price_files[s])
              /\ SubSeq(price_files'[s], 1, Len(price_files[s])) = price_files[s]
              /\ IF price_files[s] = <<>> THEN price_files'[s] = <<>>
                 ELSE \A i \in (Len(price_files[s]) + 1)..Len(price_files'[s]) :
                         price_files'[s][i].date > LastCached(s)]_vars

\* an update whose chart held rows up to the last cached date as well as newer
\* rows, the newer ones now at the end of the file
UpdateAppendedWitness ==
    \E i \in 1..Len(info_log) :
        LET e == info_log[i]
            data == hist_data(e.stock, e.range, now)
            file == price_files[e.stock]
        IN  /\ \E k \in 1..Len(data) : data[k].date <= e.last_date
            /\ \E k \in 1..Len(data) : data[k].date > e.last_date
            /\ \E k \in 1..Len(file) : file[k].date = e.last_date /\ k < Len(file)
            /\ file[Len(file)].date > e.last_date

\* the row of date d of the price file of s, as a set
RowsDated(s, d) ==
    IF s \in DOMAIN price_files
    THEN {i \in 1..Len(price_files[s]) : price_files[s][i].date = d}
    ELSE {}

\* C16: get_stock_cache(start, end) returns a price for a date and a symbol
\* exactly when the file of the symbol has a row for the date and the date is
\* in start..end, both ends included; the price is that of the row, and the
\* dates and symbols without a row are left out, not filled with zero.
CacheReturnsRowsInRange ==
    \A q \in cache_query :
        /\ DOMAIN price_cache \subseteq TradingDays
        /\ \A d \in TradingDays :
              /\ d \in DOMAIN price_cache => DOMAIN price_cache[d] \subseteq Syms
              /\ \A s \in Syms :
                    LET in == d \in DOMAIN price_cache /\ s \in DOMAIN price_cache[d]
                    IN  /\ in <=> (RowsDated(s, d) # {} /\ q.start <= d /\ d <= q.end)
                        /\ in => \A i \in RowsDated(s, d) :
                                    price_cache[d][s] = price_files[s][i].close

\* a call whose range holds some rows of a file and leaves others out, a date
\* of the range having a price for one symbol only
CacheRangeWitness ==
    \E q \in cache_query :
        /\ q.start < q.end
        /\ \E d \in DOMAIN price_cache : DOMAIN price_cache[d] = {"A"}
        /\ q.end \in DOMAIN price_cache /\ q.start \in DOMAIN price_cache
        /\ \E i \in 1..Len(price_files["A"]) : price_files["A"][i].date > q.end
        /\ \E i \in 1..Len(price_files["A"]) : price_files["A"][i].date < q.start
        /\ "B" \in DOMAIN price_files /\ price_files["B"] # <<>>

\* C26: after any sequence of runs of save_stock_prices against a provider
\* whose charts are in ascending date order with distinct dates, the data
\* rows of every price file are strictly ascending by date.
PriceFilesAscending ==
    \A s \in DOMAIN price_files :
        \A i, j \in 1..Len(price_files[s]) :
            i < j => price_files[s][i].date < price_files[s][j].date

\* two runs done, the first of which added rows to a file that had some
PriceFilesAscendingWitness ==
    /\ runs = 2
    /\ \E i \in 1..Len(info_log) :
          LET file == price_files[info_log[i].stock]
          IN  /\ \E k \in 1..Len(file) : file[k].date = info_log[i].last_date
              /\ file[Len(file)].date > info_log[i].last_date
              /\ Len(file) >= 3

\* the days the provider has a close for after the last cached date of an
\* update and up to its end date
DaysToFetch(e) == {d \in TradingDays : e.last_date < d /\ d <= e.end_date}

\* C29: the range keyword of an update reaches back to the day after the
\* last cached date: once the update is done the file holds every date the
\* provider has between the old last cached date and the end date.
UpdateLeavesNoGap ==
    \A i \in 1..Len(info_log) :
        \A d \in DaysToFetch(info_log[i]) :
            \E k \in 1..Len(price_files[info_log[i].stock]) :
                price_files[info_log[i].stock][k].date = d

----------------------------------------------------------------------------
(* Properties of full_order_history *)

\* a call of full_order_history: it returns or it raises
FohCall == pc = "started" /\ (pc' = "fetched" \/ error' # "")

\* the call is made with use_cache set on a cache of one generation or more
CacheHit == use_cache' /\ order_cache.exists /\ order_cache.files # <<>>

\* the call returned after fetching: the first page at least was asked for
FetchPathRan == pc = "fetched" /\ net_requests # <<>>

\* the records of the pages of a chain, page after page
RECURSIVE AllRecords(_)
AllRecords(chain) ==
    IF chain = <<>> THEN <<>> ELSE Head(chain) \o AllRecords(Tail(chain))

IsOrdersRequest(r) == r.endpoint = "orders"

\* C17: on the fetch path the cursor is followed to the last page and the
\* records of every page, first and last included, are collected exactly
\* once and in page order, before any filtering.
AllPagesCollectedOnce ==
    FetchPathRan =>
        /\ fetched = AllRecords(pages)
        /\ SelectSeq(net_requests, IsOrdersRequest)
              = [i \in 1..Len(pages) |-> OrdersRequest(i)]

\* two pages of different records, an order that is not filled among them
AllPagesWitness ==
    /\ FetchPathRan
    /\ Len(pages) = 2
    /\ pages[1] # <<>> /\ pages[2] # <<>> /\ pages[1] # pages[2]
    /\ Len(fetched) = Len(pages[1]) + Len(pages[2])
    /\ \E i \in 1..Len(fetched) : fetched[i].state # "filled"

IsFilled(log) == log.state = "filled"

\* C18: on the fetch path there is one trade event for each fetched order
\* whose state is filled and none for the others, in the reverse of the
\* fetch order, each with the side, the quantity and the price and timestamp
\* of the last execution of its order.
FilledOrdersReversed ==
    FetchPathRan =>
        LET filled == SelectSeq(fetched, IsFilled)
            n == Len(filled)
        IN  /\ Len(orders) = n
            /\ \A k \in 1..n :
                  LET log == filled[n + 1 - k]
                      last == log.executions[Len(log.executions)]
                  IN  /\ orders[k].action = log.side
                      /\ orders[k].shares = log.quantity
                      /\ orders[k].price = last.price
                      /\ orders[k].date = last.timestamp

\* two different events out of three records or more, one of the orders
\* having two executions
FilledOrdersWitness ==
    /\ FetchPathRan
    /\ Len(orders) = 2 /\ orders[1] # orders[2]
    /\ Len(fetched) >= 3
    /\ \E i \in 1..Len(fetched) : Len(fetched[i].executions) = 2
    /\ \E i \in 1..Len(fetched) : fetched[i].state # "filled"

\* the event of a row of a cache file
EventOfRow(row) ==
    [symbol |-> row[1], action |-> row[2], shares |-> row[3], price |-> row[4],
     date |-> row[5]]

\* the events of a cache file: its rows after the header
EventsOf(file) == [i \in 1..(Len(file) - 1) |-> EventOfRow(file[i + 1])]

\* C19: a call with use_cache set on a cache of one generation or more
\* sends no network request and, when it returns, returns the events of the
\* newest generation only.
CacheHitReadsNewest ==
    [][(FohCall /\ CacheHit) =>
          /\ net_requests' = net_requests
          /\ pc' = "fetched" =>
                orders' = EventsOf(order_cache.files[Len(order_cache.files)])]_vars

\* a return from a cache of two generations: the events are those of the
\* newer one, the filled orders of the brokerage are not among them
CacheHitWitness ==
    /\ pc = "fetched" /\ use_cache /\ net_requests = <<>>
    /\ Len(order_cache.files) = 2
    /\ orders = EventsOf(order_cache.files[2])
    /\ orders # EventsOf(order_cache.files[1])
    /\ \E i \in 1..Len(pages) : \E j \in 1..Len(pages[i]) :
          /\ pages[i][j].state = "filled"
          /\ \A k \in 1..Len(orders) : orders[k].date # pages[i][j].executions[1].timestamp

\* the cache file of a list of events
GenerationOf(history) ==
    <<getCsvHeader>> \o [i \in 1..Len(history) |-> getCsvRow(history[i])]

\* a call that is not served from the cache, made by a logged-in instance
FetchCall == FohCall /\ ~CacheHit /\ authorization = "token"

\* C20: a call with use_cache not set, or on a missing or empty cache
\* directory, raises no error, fetches and writes a fresh generation holding
\* the converted events, whatever the fetch returns.
FetchAlwaysWritesGeneration ==
    [][FetchCall =>
          /\ error' = ""
          /\ net_requests' # net_requests
          /\ order_cache' = [exists |-> TRUE,
                             files |-> Append(order_cache.files,
                                              GenerationOf(orders'))]]_vars

\* C20 (amended): such a call raises no error and fetches; it writes a fresh
\* generation holding the converted events when one fetched order at least
\* is filled, and leaves the cache directory as it was when none is.
FetchWritesGenerationOfFilled ==
    [][FetchCall =>
          /\ error' = ""
          /\ net_requests' # net_requests
          /\ fetched' = AllRecords(pages)
          /\ Len(orders') = Len(SelectSeq(fetched', IsFilled))
          /\ IF orders' # <<>>
             THEN order_cache' = [exists |-> TRUE,
                                  files |-> Append(order_cache.files,
                                                   GenerationOf(orders'))]
             ELSE order_cache' = order_cache]_vars

\* a fetch that by-passed a cache of two generations and wrote a third
FetchWroteWitness ==
    /\ FetchPathRan /\ ~use_cache
    /\ Len(order_cache.files) = 3
    /\ orders # <<>>
    /\ order_cache.files[3] = GenerationOf(orders)
    /\ order_cache.files[3] # order_cache.files[2]

----------------------------------------------------------------------------
(* Properties of one instance used call by call *)

\* the calls of full_order_history whose body ran
FohCalls ==
    {i \in 1..Len(op_log) :
        op_log[i].op = "full_order_history" /\ op_log[i].body}

\* the path of the last of them, "" when there is none
LastFohPath == IF FohCalls = {} THEN "" ELSE op_log[Max(FohCalls)].path

\* this step is a call of full_order_history that returns from the cache
CacheHitStep ==
    /\ Len(op_log') = Len(op_log) + 1
    /\ op_log'[Len(op_log')].op = "full_order_history"
    /\ op_log'[Len(op_log')].path = "cache"
    /\ error' = ""

SameEvent(a, b) ==
    /\ a.symbol = b.symbol
    /\ a.action = b.action
    /\ a.shares = b.shares
    /\ a.price = b.price
    /\ a.date = b.date

\* C21: after a call of full_order_history has fetched and written a
\* non-empty ledger, the next call, when it returns from the cache, returns
\* a sequence of the same length and order whose events have the same
\* symbol, side, shares, price and date.
LedgerRoundTrip ==
    [][(LastFohPath = "fetch" /\ error = "" /\ orders # <<>> /\ CacheHitStep) =>
          /\ Len(orders') = Len(orders)
          /\ \A k \in 1..Len(orders) : SameEvent(orders'[k], orders[k])]_vars

\* a fetch that wrote the only file of the cache, then a cache hit returning
\* two events
LedgerRoundTripWitness ==
    /\ error = ""
    /\ Len(orders) = 2
    /\ Len(order_cache.files) = 1
    /\ \E i, j \in FohCalls :
          /\ i < j /\ j = Max(FohCalls)
          /\ op_log[i].path = "fetch"
          /\ op_log[j].path = "cache"

\* the calls of instrument_lookup made on the instance
Lookups == {i \in 1..Len(op_log) : op_log[i].op = "instrument_lookup"}

InstrumentRequestsOf(u) ==
    {k \in 1..Len(net_requests) : net_requests[k] = InstrumentRequest(u)}

\* C23: over any sequence of lookups on one instance at most one request is
\* sent for each instrument url, and every later lookup of a url returns the
\* symbol its first lookup obtained.
LookupsAreMemoised ==
    /\ \A u \in InstrumentUrls : Cardinality(InstrumentRequestsOf(u)) <= 1
    /\ \A i, j \in Lookups :
          (i < j /\ op_log[i].url = op_log[j].url) =>
              op_log[j].symbol = op_log[i].symbol

\* a url looked up twice with one request sent, the symbol returned being no
\* longer the one the brokerage lists
LookupsWitness ==
    /\ symbols = RenamedSymbols
    /\ \E i, j \in Lookups :
          /\ i < j /\ op_log[i].url = op_log[j].url
          /\ op_log[j].symbol # symbols[op_log[j].url]
          /\ Cardinality(InstrumentRequestsOf(op_log[j].url)) = 1

\* the operations behind login_required
LoginRequiredOps ==
    {"get_transfers", "get_all_transfers", "order_history", "full_order_history"}

\* C30: in any sequence of login, logout and operations behind login_required,
\* the body of such an operation never runs while the instance holds no auth
\* token unless the wrapper has called the authentication method first; the
\* first such operation after logout calls it.
BodyRunsAuthenticated ==
    \A i \in 1..Len(op_log) :
        (op_log[i].op \in LoginRequiredOps /\ op_log[i].body /\ ~op_log[i].token)
            => op_log[i].auth_method

----------------------------------------------------------------------------
(* Properties of the run of gen_port_anal and of its inputs *)

\* the run has called login and the instance holds no token
LoginEndedWithoutToken == op_log # <<>> /\ ~HoldsToken(authorization)

\* C22: when login does not end with an access token, the request being
\* rejected or the answer carrying no token, the run stops before any order
\* history, transfer history or price data is fetched or loaded.
AuthFailureIsFatal ==
    LoginEndedWithoutToken =>
        /\ pc \in {"constructed", "started"}
        /\ orders = <<>> /\ fetched = <<>>
        /\ transfer_hist = <<>>
        /\ price_requests = <<>> /\ price_files = EmptyDict
        /\ \A k \in 1..Len(net_requests) : net_requests[k] = LoginRequest

\* login answered without a token, then full_order_history called on a cache
\* that holds a ledger: the run has stopped with the ledger not loaded
AuthFailureWitness ==
    /\ Len(op_log) = 2
    /\ op_log[2].op = "full_order_history"
    /\ authorization = "absent"
    /\ error = "TypeError"
    /\ Len(order_cache.files) > 0
    /\ orders = <<>>

\* this step is the call of get_stock_costs
CostsStep == pc = "reconstructed" /\ (pc' = "costed" \/ error' # "")

\* this step is the call of time_weighted_returns
ReturnsStep == pc = "priced" /\ runs' = runs /\ (pc' = "done" \/ error' # "")

====
